---- MODULE Spec2Model ----
(***************************************************************************)
(* badge.js: batch conversion of before/ images into after/ derivatives    *)
(* (png -> jpg + webp, jpg/jpeg -> webp), each derivative compressed by    *)
(* the TinyPNG API before it is written.                                   *)
(*                                                                         *)
(* Strings are sequences of one-character strings.  Source paths are       *)
(* written relative to BEFORE_DIR, output paths are built from AFTER_DIR.  *)
(***************************************************************************)
EXTENDS Integers, Sequences, FiniteSets, TLC

\* ------------------------------------------------------------------ bounds
\* At most this many files are present in before/ .
MaxFiles == 2

\* ----------------------------------------------------------------- strings
Max(S) == CHOOSE m \in S : \A x \in S : x <= m

UpperToLower ==
  [c \in {"A","B","C","D","E","F","G","H","I","J","K","L","M",
          "N","O","P","Q","R","S","T","U","V","W","X","Y","Z"} |->
     CASE c = "A" -> "a" [] c = "B" -> "b" [] c = "C" -> "c" [] c = "D" -> "d"
       [] c = "E" -> "e" [] c = "F" -> "f" [] c = "G" -> "g" [] c = "H" -> "h"
       [] c = "I" -> "i" [] c = "J" -> "j" [] c = "K" -> "k" [] c = "L" -> "l"
       [] c = "M" -> "m" [] c = "N" -> "n" [] c = "O" -> "o" [] c = "P" -> "p"
       [] c = "Q" -> "q" [] c = "R" -> "r" [] c = "S" -> "s" [] c = "T" -> "t"
       [] c = "U" -> "u" [] c = "V" -> "v" [] c = "W" -> "w" [] c = "X" -> "x"
       [] c = "Y" -> "y" [] c = "Z" -> "z"]

\* A mutated String.prototype.toLowerCase: the extension is compared as is.
toLowerCase_Identity(s) == s

\* String.prototype.toLowerCase
toLowerCase(s) ==
  [k \in 1..Len(s) |-> IF s[k] \in DOMAIN UpperToLower THEN UpperToLower[s[k]] ELSE s[k]]

\* Index of the last occurrence of c in s, 0 when there is none.
LastIndexOf(s, c) == Max({0} \cup {k \in 1..Len(s) : s[k] = c})

EndsWith(s, suffix) ==
  /\ Len(suffix) <= Len(s)
  /\ SubSeq(s, Len(s) - Len(suffix) + 1, Len(s)) = suffix

\* The last segment of a path (the part after the last "/").
LastSegment(p) == SubSeq(p, LastIndexOf(p, "/") + 1, Len(p))

\* path.extname: from the last "." of the last segment to its end; empty when
\* there is no ".", when the only "." is the first character, and for "..".
extname(p) ==
  LET b == LastSegment(p)
      d == LastIndexOf(b, ".")
  IN  IF d <= 1 \/ b = <<".", ".">> THEN <<>> ELSE SubSeq(b, d, Len(b))

\* path.basename(p, ext): the last segment, without ext when it ends with ext
\* and is not ext itself.
basename(p, ext) ==
  LET b == LastSegment(p)
  IN  IF ext # <<>> /\ b # ext /\ EndsWith(b, ext)
      THEN SubSeq(b, 1, Len(b) - Len(ext))
      ELSE b

\* --------------------------------------------------------------- badge.js
AFTER_DIR == <<"a", "f", "t", "e", "r">>

EXT_PNG  == <<".", "p", "n", "g">>
EXT_JPG  == <<".", "j", "p", "g">>
EXT_JPEG == <<".", "j", "p", "e", "g">>
EXT_WEBP == <<".", "w", "e", "b", "p">>

isJpeg(ext) == ext = EXT_JPG \/ ext = EXT_JPEG

isPng(ext) == ext = EXT_PNG

baseNameNoExt(filePath) == basename(filePath, extname(filePath))

\* path.join(outDir, `${base}${ext}`)
withExt(outDir, base, ext) == outDir \o <<"/">> \o base \o ext

\* The synchronous part of convertAndCompressOne: the derivative tasks it
\* pushes, in order (output path and encoder format of each), or the skipped
\* result.
convertAndCompressOne(srcPath) ==
  LET ext  == toLowerCase(extname(srcPath))
      base == baseNameNoExt(srcPath)
  IN  IF isPng(ext)
      THEN [skipped |-> FALSE,
            tasks   |-> << [out |-> withExt(AFTER_DIR, base, EXT_JPG),  fmt |-> "jpeg"],
                           [out |-> withExt(AFTER_DIR, base, EXT_WEBP), fmt |-> "webp"] >>]
      ELSE IF isJpeg(ext)
      THEN [skipped |-> FALSE,
            tasks   |-> << [out |-> withExt(AFTER_DIR, base, EXT_WEBP), fmt |-> "webp"] >>]
      ELSE [skipped |-> TRUE, tasks |-> << >>]


\* ------------------------------------------------------------------ state
VARIABLES
  API_KEY,   \* whether process.env.TINYPNG_API_KEY holds a non-empty value
  nocase,    \* glob's platform default: TRUE on macOS and Windows
  before,    \* the files under BEFORE_DIR (paths relative to it)
  after,     \* the files under AFTER_DIR: output path -> content
  pc,        \* where main() stands
  files,     \* main: the enumerated source files
  i,         \* main: index in files of the file of the current iteration
  results,   \* main: the results pushed so far
  log,       \* the lines printed by console.log / console.error
  tasks,     \* the derivative tasks started so far: <<file index, k>> -> task
  planSrc,   \* the planner on its own: the source path given
  planRes    \* the planner on its own: what convertAndCompressOne planned

vars == <<API_KEY, nocase, before, after, pc, files, i, results, log, tasks,
          planSrc, planRes>>

\* The files before/ may hold: a PNG, a text file, a PNG with an upper-case
\* extension, and a JPEG in a subdirectory with the base name of the PNG.
F_photo_png == <<"p","h","o","t","o",".","p","n","g">>
F_notes_txt == <<"n","o","t","e","s",".","t","x","t">>
F_b_PNG     == <<"b",".","P","N","G">>
F_d_photo_jpeg == <<"d","/","p","h","o","t","o",".","j","p","e","g">>

Candidates == {F_photo_png, F_notes_txt, F_b_PNG, F_d_photo_jpeg}

\* HTTP statuses the remote service answers with.
Statuses == {199, 200, 299, 300}

\* Buffers: the encoder's output for (source, format), and the body the
\* remote service serves for an uploaded buffer.
NoBuf == [kind |-> "none", src |-> <<>>, fmt |-> ""]
Encoded(src, fmt) == [kind |-> "encoded", src |-> src, fmt |-> fmt]
Tiny(buf) == [buf EXCEPT !.kind = "tiny"]

\* Errors: the Error thrown, told apart by the throw statement or the call it
\* comes from (its message is a function of that, and of the status received).
NoErr == "none"
Err(kind) == kind

Line(tag, file, err, outs, ok, total) ==
  [tag |-> tag, file |-> file, err |-> err, outs |-> outs, ok |-> ok, total |-> total]

\* ------------------------------------------------------------ enumeration
\* No segment of the path starts with "." (glob's dot: false).
NoDotSegment(p) ==
  /\ p # <<>> => p[1] # "."
  /\ \A k \in 1..(Len(p) - 1) : p[k] = "/" => p[k + 1] # "."

\* A mutated glob: every file of the directory matches the pattern.
Glob_All(ext, dir, fold) == dir

\* glob(path.join(BEFORE_DIR, "**/*" + ext)): the files of dir, at any depth,
\* whose name ends with ext, compared without case when fold.
Glob(ext, dir, fold) ==
  {f \in dir : /\ NoDotSegment(f)
               /\ Len(LastSegment(f)) > Len(ext)
               /\ EndsWith(IF fold THEN toLowerCase(LastSegment(f)) ELSE LastSegment(f), ext)}

\* The orders in which a listing may return the set S.
Orders(S) ==
  {s \in [1..Cardinality(S) -> S] : \A a, b \in 1..Cardinality(S) : s[a] = s[b] => a = b}

RECURSIVE Dedupe(_)
\* [...new Set(s)]: s without repeated elements, first occurrences kept in order.
Dedupe(s) ==
  IF s = <<>> THEN <<>>
  ELSE LET r == Dedupe(SubSeq(s, 1, Len(s) - 1))
       IN  IF \E k \in 1..Len(r) : r[k] = s[Len(s)] THEN r ELSE Append(r, s[Len(s)])

\* ------------------------------------------------------------------ tasks
InFlight(t) == t.pc \in {"encode", "upload", "download", "write"}

TasksOf(j) == {id \in DOMAIN tasks : id[1] = j}

\* Promise.all over the tasks of file j: rejected as soon as one task has
\* rejected, fulfilled once all have fulfilled.
PromiseAll(j) ==
  IF \E id \in TasksOf(j) : tasks[id].pc = "failed" THEN "rejected"
  ELSE IF \A id \in TasksOf(j) : tasks[id].pc = "ok" THEN "fulfilled"
  ELSE "pending"

\* An I/O completion is delivered only when main() has nothing left to run:
\* promise continuations (microtasks) run before the next I/O callback.
IOTurn == pc = "done" \/ (pc = "await" /\ PromiseAll(i) = "pending")

NewTask(j, src, d) ==
  [file |-> j, src |-> src, out |-> d.out, fmt |-> d.fmt, pc |-> "encode",
   buf |-> NoBuf, loc |-> NoBuf, body |-> NoBuf, err |-> NoErr,
   uploads |-> 0, downloads |-> 0, late |-> FALSE]

Fail(t, e) == [t EXCEPT !.pc = "failed", !.err = e]


\* What an HTTP call comes back with: a response carrying a status and, for the
\* upload, a Location header or none; or the client throws (no response).
Responses ==
  [threw : {FALSE}, status : Statuses, location : BOOLEAN]
    \cup {[threw |-> TRUE, status |-> 0, location |-> FALSE]}

NoPlan == [skipped |-> FALSE, tasks |-> << >>]

\* ------------------------------------------------------------------- Init
Init ==
  /\ API_KEY \in BOOLEAN
  /\ nocase \in BOOLEAN
  /\ before \in {S \in SUBSET Candidates : Cardinality(S) <= MaxFiles}
  /\ after = << >>
  /\ pc = "setup"
  /\ files = << >>
  /\ i = 0
  /\ results = << >>
  /\ log = << >>
  /\ tasks = << >>
  /\ planSrc = << >>
  /\ planRes = NoPlan

\* ------------------------------------------------------------------- main
\* main: await ensureDirs().  When fs.mkdir rejects, main() rejects and the
\* handler of main().catch prints the error and exits with code 1.
Setup ==
  /\ pc = "setup"
  /\ \E ok \in BOOLEAN :
       IF ok
       THEN /\ pc' = "glob"
            /\ log' = log
       ELSE /\ pc' = "exit1"
            /\ log' = Append(log, Line("FATAL", << >>, Err("mkdir"), << >>, 0, 0))
  /\ UNCHANGED <<API_KEY, nocase, before, after, files, i, results, tasks, planSrc, planRes>>

\* A mutated enumeration: the early return on an empty listing is missing.
Enumerate_NoEarlyReturn ==
  /\ pc = "glob"
  /\ \E r1 \in Orders(Glob(EXT_PNG, before, nocase)),
        r2 \in Orders(Glob(EXT_JPG, before, nocase)),
        r3 \in Orders(Glob(EXT_JPEG, before, nocase)) :
       LET found == Dedupe(r1 \o r2 \o r3)
       IN  /\ files' = found
           /\ log' = Append(log, Line("INPUT", << >>, NoErr, << >>, 0, Len(found)))
           /\ pc' = "loop"
           /\ i' = 1
  /\ UNCHANGED <<API_KEY, nocase, before, after, results, tasks, planSrc, planRes>>

\* main: the three globs, flattened in pattern order and deduplicated; the
\* early return when nothing was found.
Enumerate ==
  /\ pc = "glob"
  /\ \E r1 \in Orders(Glob(EXT_PNG, before, nocase)),
        r2 \in Orders(Glob(EXT_JPG, before, nocase)),
        r3 \in Orders(Glob(EXT_JPEG, before, nocase)) :
       LET found == Dedupe(r1 \o r2 \o r3)
       IN  /\ files' = found
           /\ IF Len(found) = 0
              THEN /\ log' = Append(log, Line("EMPTY", << >>, NoErr, << >>, 0, 0))
                   /\ pc' = "done"
                   /\ i' = i
              ELSE /\ log' = Append(log, Line("INPUT", << >>, NoErr, << >>, 0, Len(found)))
                   /\ pc' = "loop"
                   /\ i' = 1
  /\ UNCHANGED <<API_KEY, nocase, before, after, results, tasks, planSrc, planRes>>

\* main: the head of one loop iteration, up to the await: the synchronous part
\* of convertAndCompressOne(files[i]).  Each task it pushes has started its
\* encoder call.  A skipped result is pushed and printed at once.
LoopNext ==
  /\ pc = "loop"
  /\ i <= Len(files)
  /\ LET f == files[i]
         r == convertAndCompressOne(f)
     IN  IF r.skipped
         THEN /\ results' = Append(results, [srcPath |-> f, outputs |-> << >>, skipped |-> TRUE])
              /\ log' = Append(log, Line("SKIP", f, NoErr, << >>, 0, 0))
              /\ i' = i + 1
              /\ UNCHANGED <<pc, tasks>>
         ELSE /\ tasks' = [id \in DOMAIN tasks \cup {<<i, k>> : k \in 1..Len(r.tasks)} |->
                             IF id \in DOMAIN tasks THEN tasks[id]
                             ELSE NewTask(i, f, r.tasks[id[2]])]
              /\ pc' = "await"
              /\ UNCHANGED <<results, log, i>>
  /\ UNCHANGED <<API_KEY, nocase, before, after, files, planSrc, planRes>>

\* A mutated loop without the try/catch: the error escapes main().
MainResume_Rethrow ==
  /\ pc = "await"
  /\ PromiseAll(i) # "pending"
  /\ LET f == files[i]
         n == Cardinality(TasksOf(i))
     IN  IF PromiseAll(i) = "fulfilled"
         THEN LET outs == [k \in 1..n |-> tasks[<<i, k>>].out]
              IN  /\ results' = Append(results, [srcPath |-> f, outputs |-> outs, skipped |-> FALSE])
                  /\ log' = Append(log, Line("OK", f, NoErr, outs, 0, 0))
                  /\ i' = i + 1
                  /\ pc' = "loop"
         ELSE LET bad == CHOOSE id \in TasksOf(i) : tasks[id].pc = "failed"
              IN  /\ results' = results
                  /\ log' = Append(log, Line("FATAL", f, tasks[bad].err, << >>, 0, 0))
                  /\ i' = i
                  /\ pc' = "exit1"
  /\ UNCHANGED <<API_KEY, nocase, before, after, files, tasks, planSrc, planRes>>

\* A mutated catch: the outputs the failed file has written are removed and
\* its tasks still running are cancelled.
MainResume_Rollback ==
  /\ pc = "await"
  /\ PromiseAll(i) # "pending"
  /\ LET f == files[i]
         n == Cardinality(TasksOf(i))
     IN  IF PromiseAll(i) = "fulfilled"
         THEN LET outs == [k \in 1..n |-> tasks[<<i, k>>].out]
              IN  /\ results' = Append(results, [srcPath |-> f, outputs |-> outs, skipped |-> FALSE])
                  /\ log' = Append(log, Line("OK", f, NoErr, outs, 0, 0))
                  /\ UNCHANGED <<after, tasks>>
         ELSE LET bad == CHOOSE id \in TasksOf(i) : tasks[id].pc = "failed"
                  gone == {tasks[id].out : id \in {x \in TasksOf(i) : tasks[x].pc = "ok"}}
              IN  /\ results' = results
                  /\ log' = Append(log, Line("ERROR", f, tasks[bad].err, << >>, 0, 0))
                  /\ after' = [q \in DOMAIN after \ gone |-> after[q]]
                  /\ tasks' = [id \in DOMAIN tasks |->
                                 IF id[1] = i /\ InFlight(tasks[id])
                                 THEN [tasks[id] EXCEPT !.pc = "cancelled"]
                                 ELSE tasks[id]]
  /\ i' = i + 1
  /\ pc' = "loop"
  /\ UNCHANGED <<API_KEY, nocase, before, files, planSrc, planRes>>

\* main: the await of convertAndCompressOne returns or throws.  It returns the
\* output paths in task order once every task fulfilled; it throws the error of
\* the first task that rejected, which the catch of the loop prints.
MainResume ==
  /\ pc = "await"
  /\ PromiseAll(i) # "pending"
  /\ LET f == files[i]
         n == Cardinality(TasksOf(i))
     IN  IF PromiseAll(i) = "fulfilled"
         THEN LET outs == [k \in 1..n |-> tasks[<<i, k>>].out]
              IN  /\ results' = Append(results, [srcPath |-> f, outputs |-> outs, skipped |-> FALSE])
                  /\ log' = Append(log, Line("OK", f, NoErr, outs, 0, 0))
         ELSE LET bad == CHOOSE id \in TasksOf(i) : tasks[id].pc = "failed"
              IN  /\ results' = results
                  /\ log' = Append(log, Line("ERROR", f, tasks[bad].err, << >>, 0, 0))
  /\ i' = i + 1
  /\ pc' = "loop"
  /\ UNCHANGED <<API_KEY, nocase, before, after, files, tasks, planSrc, planRes>>

\* results.filter((r) => !r.skipped && r.outputs.length).length
okCount(rs) == Cardinality({k \in 1..Len(rs) : ~rs[k].skipped /\ Len(rs[k].outputs) # 0})

\* main: after the loop, the summary line; main() returns.
Report ==
  /\ pc = "loop"
  /\ i > Len(files)
  /\ log' = Append(log, Line("SUMMARY", << >>, NoErr, << >>, okCount(results), Len(files)))
  /\ pc' = "done"
  /\ UNCHANGED <<API_KEY, nocase, before, after, files, i, results, tasks, planSrc, planRes>>

\* ------------------------------------------------- derivative task steps
\* A mutated tinifyCompressBuffer without the API key check.
EncodeDone_NoKeyCheck(id) ==
  /\ IOTurn
  /\ tasks[id].pc = "encode"
  /\ \E ok \in BOOLEAN :
       LET t == tasks[id]
       IN  tasks' = [tasks EXCEPT ![id] =
             IF ~ok THEN Fail(t, Err("encode"))
             ELSE [t EXCEPT !.buf = Encoded(t.src, t.fmt), !.pc = "upload", !.uploads = @ + 1]]
  /\ UNCHANGED <<API_KEY, nocase, before, after, pc, files, i, results, log, planSrc, planRes>>

\* sharp(srcPath).<format>().toBuffer() settles.  On a buffer the task calls
\* writeCompressedFile -> tinifyCompressBuffer, which throws without an API
\* key and otherwise posts the buffer to /shrink.
EncodeDone(id) ==
  /\ IOTurn
  /\ tasks[id].pc = "encode"
  /\ \E ok \in BOOLEAN :
       LET t == tasks[id]
       IN  tasks' = [tasks EXCEPT ![id] =
             IF ~ok THEN Fail(t, Err("encode"))
             ELSE IF ~API_KEY THEN Fail([t EXCEPT !.buf = Encoded(t.src, t.fmt)], Err("config"))
             ELSE [t EXCEPT !.buf = Encoded(t.src, t.fmt), !.pc = "upload", !.uploads = @ + 1]]
  /\ UNCHANGED <<API_KEY, nocase, before, after, pc, files, i, results, log, planSrc, planRes>>

\* A mutated tinifyCompressBuffer that posts once more after a refused upload.
UploadDone_Retry(id) ==
  /\ IOTurn
  /\ tasks[id].pc = "upload"
  /\ \E shrinkRes \in Responses :
       LET t == tasks[id]
       IN  tasks' = [tasks EXCEPT ![id] =
             IF shrinkRes.threw THEN Fail(t, Err("network"))
             ELSE IF shrinkRes.status < 200 \/ shrinkRes.status >= 300
                  THEN IF t.uploads < 2 THEN [t EXCEPT !.uploads = @ + 1]
                       ELSE Fail(t, Err("shrink"))
             ELSE IF ~shrinkRes.location THEN Fail(t, Err("location"))
             ELSE [t EXCEPT !.loc = t.buf, !.pc = "download", !.downloads = @ + 1]]
  /\ UNCHANGED <<API_KEY, nocase, before, after, pc, files, i, results, log, planSrc, planRes>>

\* axios.post(".../shrink") settles: a status outside 2xx and a missing
\* Location header throw; otherwise the GET of the Location is issued.
UploadDone(id) ==
  /\ IOTurn
  /\ tasks[id].pc = "upload"
  /\ \E shrinkRes \in Responses :
       LET t == tasks[id]
       IN  tasks' = [tasks EXCEPT ![id] =
             IF shrinkRes.threw THEN Fail(t, Err("network"))
             ELSE IF shrinkRes.status < 200 \/ shrinkRes.status >= 300
                  THEN Fail(t, Err("shrink"))
             ELSE IF ~shrinkRes.location THEN Fail(t, Err("location"))
             ELSE [t EXCEPT !.loc = t.buf, !.pc = "download", !.downloads = @ + 1]]
  /\ UNCHANGED <<API_KEY, nocase, before, after, pc, files, i, results, log, planSrc, planRes>>

\* axios.get(outputUrl) settles: a status outside 2xx throws; otherwise the
\* body is returned to writeCompressedFile, which calls fs.writeFile.
DownloadDone(id) ==
  /\ IOTurn
  /\ tasks[id].pc = "download"
  /\ \E outRes \in {r \in Responses : ~r.location} :
       LET t == tasks[id]
       IN  tasks' = [tasks EXCEPT ![id] =
             IF outRes.threw THEN Fail(t, Err("network"))
             ELSE IF outRes.status < 200 \/ outRes.status >= 300
                  THEN Fail(t, Err("download"))
             ELSE [t EXCEPT !.body = Tiny(t.loc), !.pc = "write"]]
  /\ UNCHANGED <<API_KEY, nocase, before, after, pc, files, i, results, log, planSrc, planRes>>

\* A mutated writeCompressedFile that writes the buffer it was given.
WriteDone_Raw(id) ==
  /\ IOTurn
  /\ tasks[id].pc = "write"
  /\ \E ok \in BOOLEAN :
       LET t == tasks[id]
       IN  IF ok
           THEN /\ after' = (t.out :> t.buf) @@ after
                /\ tasks' = [tasks EXCEPT ![id] = [t EXCEPT !.pc = "ok", !.late = (t.file < i)]]
           ELSE /\ after' = after
                /\ tasks' = [tasks EXCEPT ![id] = Fail(t, Err("write"))]
  /\ UNCHANGED <<API_KEY, nocase, before, pc, files, i, results, log, planSrc, planRes>>

\* fs.writeFile(outPath, compressed) settles: the file holds the data, created
\* or overwritten, and the task returns its path; or the write failed.
WriteDone(id) ==
  /\ IOTurn
  /\ tasks[id].pc = "write"
  /\ \E ok \in BOOLEAN :
       LET t == tasks[id]
       IN  IF ok
           THEN /\ after' = (t.out :> t.body) @@ after
                /\ tasks' = [tasks EXCEPT ![id] = [t EXCEPT !.pc = "ok", !.late = (t.file < i)]]
           ELSE /\ after' = after
                /\ tasks' = [tasks EXCEPT ![id] = Fail(t, Err("write"))]
  /\ UNCHANGED <<API_KEY, nocase, before, pc, files, i, results, log, planSrc, planRes>>

Next ==
  \/ Setup
  \/ Enumerate
  \/ LoopNext
  \/ MainResume
  \/ Report
  \/ \E id \in DOMAIN tasks : EncodeDone(id)
  \/ \E id \in DOMAIN tasks : UploadDone(id)
  \/ \E id \in DOMAIN tasks : DownloadDone(id)
  \/ \E id \in DOMAIN tasks : WriteDone(id)

Spec == Init /\ [][Next]_vars

\* Every encoder, network and filesystem call returns, and main() runs when it
\* can: no enabled step is postponed for ever.
FairSpec == Spec /\ WF_vars(Next)


\* ------------------------------------------------- the planner on its own
PlanDirs  == { << >>, <<"d", "/">>, <<"x", ".", "y", "/">> }
PlanBases == { <<"a">>, <<"a", ".", "b">>, << >> }
PlanExts  ==
  { <<".","p","n","g">>, <<".","P","N","G">>, <<".","P","n","g">>, <<".","p","n","G">>,
    <<".","j","p","g">>, <<".","J","P","G">>, <<".","j","P","g">>,
    <<".","j","p","e","g">>, <<".","J","P","E","G">>, <<".","J","p","E","g">>,
    <<".","t","x","t">>, <<".","w","e","b","p">>, <<".","g","i","f">>,
    <<".","p","n">>, <<".","p","n","g","x">>, <<".","j","p","e">>,
    <<"p","n","g">>, <<".">>, << >> }

PlanInputs == {d \o b \o e : d \in PlanDirs, b \in PlanBases, e \in PlanExts}

PlanInit ==
  /\ planSrc \in PlanInputs
  /\ planRes = NoPlan
  /\ pc = "plan"
  /\ API_KEY = TRUE
  /\ nocase = FALSE
  /\ before = {}
  /\ after = << >>
  /\ files = << >>
  /\ i = 0
  /\ results = << >>
  /\ log = << >>
  /\ tasks = << >>

\* convertAndCompressOne(planSrc) is called: what it plans before any await.
PlanApply ==
  /\ pc = "plan"
  /\ planRes' = convertAndCompressOne(planSrc)
  /\ pc' = "planned"
  /\ UNCHANGED <<API_KEY, nocase, before, after, files, i, results, log, tasks, planSrc>>

PlanNext == PlanApply

PlanSpec == PlanInit /\ [][PlanNext]_vars

\* =============================================================== properties
\* The extension of a path, taken by hand: the part of the last segment from
\* its last "." on, when that "." is not its first character.
ExtOf(p) ==
  LET b == LastSegment(p)
      dots == {k \in 2..Len(b) : b[k] = "."}
  IN  IF dots = {} THEN << >> ELSE SubSeq(b, Max(dots), Len(b))

StemOf(p) == SubSeq(LastSegment(p), 1, Len(LastSegment(p)) - Len(ExtOf(p)))

\* s and t are the same up to the case of their letters.
SameIgnoringCase(s, t) ==
  /\ Len(s) = Len(t)
  /\ \A k \in 1..Len(s) :
       \/ s[k] = t[k]
       \/ s[k] \in DOMAIN UpperToLower /\ UpperToLower[s[k]] = t[k]

OutPath(stem, ext) == AFTER_DIR \o <<"/">> \o stem \o ext

\* C1: the derivatives planned for a source path depend only on its extension,
\* compared without case: .png plans <base>.jpg then <base>.webp, .jpg and
\* .jpeg plan <base>.webp alone, anything else plans nothing and is skipped.
C1_PlanByExtension ==
  pc = "planned" =>
    LET e == ExtOf(planSrc)
        b == StemOf(planSrc)
    IN  IF SameIgnoringCase(e, EXT_PNG)
        THEN /\ ~planRes.skipped
             /\ planRes.tasks = << [out |-> OutPath(b, EXT_JPG),  fmt |-> "jpeg"],
                                   [out |-> OutPath(b, EXT_WEBP), fmt |-> "webp"] >>
        ELSE IF SameIgnoringCase(e, EXT_JPG) \/ SameIgnoringCase(e, EXT_JPEG)
        THEN /\ ~planRes.skipped
             /\ planRes.tasks = << [out |-> OutPath(b, EXT_WEBP), fmt |-> "webp"] >>
        ELSE /\ planRes.skipped
             /\ planRes.tasks = << >>

\* A path in a directory whose name has a dot, with a mixed-case .png
\* extension, has been planned as a PNG.
C1_Witness ==
  /\ pc = "planned"
  /\ planSrc = <<"x", ".", "y", "/", "a", ".", "b", ".", "P", "n", "g">>
  /\ Len(planRes.tasks) = 2


\* --------------------------------------------------- the batch, properties
\* main() has returned and no call of any task is outstanding.
Quiescent == pc = "done" /\ \A id \in DOMAIN tasks : ~InFlight(tasks[id])

LinesOf(tag, f) == {k \in 1..Len(log) : log[k].tag = tag /\ log[k].file = f}

LinesTagged(tag) == {k \in 1..Len(log) : log[k].tag = tag}

FailedTasksOf(j) == {id \in TasksOf(j) : tasks[id].pc = "failed"}

\* C2: every file of the output directory holds the body a 2xx download
\* returned for the encoded buffer of a derivative that targets it; the raw
\* encoder output is never written, and a derivative whose compression failed
\* writes nothing.
C2_OnlyCompressedWritten ==
  \A p \in DOMAIN after :
    /\ after[p].kind = "tiny"
    /\ \E id \in DOMAIN tasks :
         /\ tasks[id].out = p
         /\ tasks[id].pc = "ok"
         /\ tasks[id].uploads = 1 /\ tasks[id].downloads = 1
         /\ tasks[id].body = Tiny(Encoded(tasks[id].src, tasks[id].fmt))
         /\ after[p] = tasks[id].body

\* A derivative was written while a derivative of the same run failed in the
\* remote compressor.
C2_Witness ==
  /\ Quiescent
  /\ DOMAIN after # {}
  /\ \E id \in DOMAIN tasks : tasks[id].err \in {"shrink", "location", "download"}

\* C3: no derivative task of a later file has started while a derivative task
\* of an earlier file is still running.
C3_FilesStrictlySequential ==
  \A a, b \in DOMAIN tasks : a[1] < b[1] => ~InFlight(tasks[a])

\* C4: a per-file error never ends the loop (main ends by "done" once setup
\* passed, with every file given an outcome); and when the remote compressor
\* fails for one file and every other file is processed without error, the
\* summary counts all files but one, one error line is printed, and every
\* other file is reported OK with its outputs.
CompressorErrors == {"shrink", "location", "download", "network"}

C4_PerFileIsolation ==
  /\ pc = "exit1" => tasks = << >> /\ files = << >>
  /\ (pc = "done" /\ files # << >>) =>
        /\ i = Len(files) + 1
        /\ \A k \in 1..Len(files) :
             Cardinality(LinesOf("OK", files[k]) \cup LinesOf("ERROR", files[k])
                           \cup LinesOf("SKIP", files[k])) = 1
  /\ \A j \in 1..Len(files) :
       ( /\ Quiescent
         /\ FailedTasksOf(j) # {}
         /\ \A id \in FailedTasksOf(j) : tasks[id].err \in CompressorErrors
         /\ \A k \in 1..Len(files) : k # j => FailedTasksOf(k) = {} )
       => /\ log[Len(log)].tag = "SUMMARY"
          /\ log[Len(log)].ok = Len(files) - 1
          /\ log[Len(log)].total = Len(files)
          /\ Cardinality(LinesTagged("ERROR")) = 1
          /\ LinesOf("ERROR", files[j]) # {}
          /\ \A k \in 1..Len(files) : k # j =>
               \E n \in LinesOf("OK", files[k]) : Len(log[n].outs) = Cardinality(TasksOf(k))

\* The first of two files failed in the remote compressor, the second one
\* was processed without error.
C4_Witness ==
  /\ Quiescent
  /\ Len(files) = 2
  /\ FailedTasksOf(1) # {}
  /\ \A id \in FailedTasksOf(1) : tasks[id].err \in CompressorErrors
  /\ FailedTasksOf(2) = {}
  /\ LinesOf("OK", files[2]) # {}


\* C5 as stated: without an API key every enumerated file ends with an error
\* line carrying the configuration error, no upload or download is issued,
\* nothing is written, and main() ends without reaching the exit-1 handler.
C5_AllFailWithConfigError ==
  ~API_KEY =>
    /\ \A id \in DOMAIN tasks : tasks[id].uploads = 0 /\ tasks[id].downloads = 0
    /\ after = << >>
    /\ pc = "exit1" => tasks = << >>
    /\ pc = "done" =>
         \A k \in 1..Len(files) :
           /\ LinesOf("OK", files[k]) = {}
           /\ Cardinality(LinesOf("ERROR", files[k])) = 1
           /\ \A n \in LinesOf("ERROR", files[k]) : log[n].err = "config"

\* C5, amended: as above, but the error line of a file carries the encoder's
\* error when the encoder failed for that file before the compressor was
\* reached; it carries the configuration error whenever no encoder call of
\* the file failed.
C5_AllFailWithoutKey ==
  ~API_KEY =>
    /\ \A id \in DOMAIN tasks : tasks[id].uploads = 0 /\ tasks[id].downloads = 0
    /\ after = << >>
    /\ pc = "exit1" => tasks = << >>
    /\ pc = "done" =>
         \A k \in 1..Len(files) :
           /\ LinesOf("OK", files[k]) = {}
           /\ Cardinality(LinesOf("ERROR", files[k])) = 1
           /\ \A n \in LinesOf("ERROR", files[k]) :
                /\ log[n].err \in {"config", "encode"}
                /\ (\A id \in TasksOf(k) : tasks[id].err # "encode") => log[n].err = "config"

\* Without an API key, a PNG and a JPEG file were both reported with the
\* configuration error and main() returned.
C5_Witness ==
  /\ ~API_KEY
  /\ Quiescent
  /\ Len(files) = 2
  /\ Cardinality(TasksOf(1)) = 2
  /\ \A k \in 1..2 : \E n \in LinesOf("ERROR", files[k]) : log[n].err = "config"

\* C6: when two files plan the same output path and both derivatives were
\* written, the output holds the content made from the file processed second.
C6_SecondFileWins ==
  Quiescent =>
    \A a, b \in DOMAIN tasks :
      ( /\ a[1] < b[1]
        /\ tasks[a].out = tasks[b].out
        /\ tasks[a].pc = "ok" /\ tasks[b].pc = "ok" )
      => after[tasks[b].out] = tasks[b].body

\* A file is an image by its extension, compared without case.
ImageName(f) ==
  \/ SameIgnoringCase(ExtOf(f), EXT_PNG)
  \/ SameIgnoringCase(ExtOf(f), EXT_JPG)
  \/ SameIgnoringCase(ExtOf(f), EXT_JPEG)

Mentioned(f) ==
  \/ \E k \in 1..Len(files) : files[k] = f
  \/ \E k \in 1..Len(log) : log[k].file = f
  \/ \E k \in 1..Len(results) : results[k].srcPath = f
  \/ \E id \in DOMAIN tasks : tasks[id].src = f

OnlyPhotoAndNotes == before = {F_photo_png, F_notes_txt}

\* C7 as stated: a file of the input directory that is no .png, .jpg or .jpeg
\* is reported skipped by the end of the run, and the directory holding
\* photo.png and notes.txt ends with 1 succeeded, 1 skipped, 0 failed.
C7_OthersReportedSkipped ==
  pc = "done" =>
    /\ \A f \in before : ~ImageName(f) => LinesOf("SKIP", f) # {}
    /\ (OnlyPhotoAndNotes /\ Quiescent /\ \A id \in DOMAIN tasks : tasks[id].pc = "ok")
         => /\ Cardinality(LinesTagged("OK")) = 1
            /\ Cardinality(LinesTagged("SKIP")) = 1
            /\ Cardinality(LinesTagged("ERROR")) = 0

\* C7, amended: a file that is no .png, .jpg or .jpeg is never enumerated: it
\* is not given to convertAndCompressOne, has no derivative and no outcome,
\* and no line is printed for it (no SKIP line is ever printed); for the
\* directory holding photo.png and notes.txt, with every call succeeding, the
\* output directory gains photo.jpg and photo.webp and the summary counts 1
\* succeeded of 1 input file, with no skipped and no failed file.
C7_OthersNeverEnumerated ==
  /\ \A f \in before : ~ImageName(f) => ~Mentioned(f)
  /\ LinesTagged("SKIP") = {}
  /\ (OnlyPhotoAndNotes /\ Quiescent /\ \A id \in DOMAIN tasks : tasks[id].pc = "ok")
       => /\ DOMAIN after = {OutPath(StemOf(F_photo_png), EXT_JPG),
                             OutPath(StemOf(F_photo_png), EXT_WEBP)}
          /\ files = << F_photo_png >>
          /\ log[Len(log)].tag = "SUMMARY"
          /\ log[Len(log)].ok = 1 /\ log[Len(log)].total = 1
          /\ Cardinality(LinesTagged("OK")) = 1
          /\ Cardinality(LinesTagged("ERROR")) = 0

\* The run over photo.png and notes.txt ended with both derivatives written.
C7_Witness ==
  /\ OnlyPhotoAndNotes
  /\ Quiescent
  /\ Cardinality(DOMAIN after) = 2
  /\ \A id \in DOMAIN tasks : tasks[id].pc = "ok"


OutcomeLines(f) == LinesOf("OK", f) \cup LinesOf("ERROR", f) \cup LinesOf("SKIP", f)

\* C8 as stated (its summary part): a run that reached its end has printed the
\* batch summary exactly once.
C8_SummaryOnceAtDone ==
  pc = "done" => Cardinality(LinesTagged("SUMMARY")) = 1

\* C8, amended: once setup succeeded the run reaches its end, whatever the
\* files' outcomes; a run that found at least one file prints the summary
\* exactly once, as its last line, after one outcome line per file, and a run
\* that found no file prints the no-input line and no summary; no file is
\* enumerated twice, none gets a second outcome, the loop never steps back and
\* no task is started again.
C8_TerminatesSummaryOnce ==
  /\ (pc = "glob") ~> (pc = "done")
  /\ [](/\ Cardinality(LinesTagged("SUMMARY")) <= 1
        /\ \A a, b \in 1..Len(files) : files[a] = files[b] => a = b
        /\ \A k \in 1..Len(files) : Cardinality(OutcomeLines(files[k])) <= 1
        /\ \A n \in LinesTagged("SUMMARY") :
             /\ n = Len(log)
             /\ pc = "done"
             /\ \A k \in 1..Len(files) : Cardinality(OutcomeLines(files[k])) = 1
        /\ pc = "done" =>
             IF files = << >>
             THEN LinesTagged("SUMMARY") = {} /\ Cardinality(LinesTagged("EMPTY")) = 1
             ELSE Cardinality(LinesTagged("SUMMARY")) = 1)
  /\ [][/\ i' >= i
        /\ \A id \in DOMAIN tasks :
             /\ id \in DOMAIN tasks'
             /\ tasks'[id].pc = "encode" => tasks[id].pc = "encode"]_vars

\* A run over two files, one failed and one succeeded, has ended with its
\* summary printed.
C8_Witness ==
  /\ Quiescent
  /\ Len(files) = 2
  /\ LinesTagged("ERROR") # {}
  /\ LinesTagged("OK") # {}
  /\ log[Len(log)].tag = "SUMMARY"

\* C9: a call of tinifyCompressBuffer issues at most one upload and at most
\* one download; the download only after the upload gave a location; it
\* returns a body only after both; a failed upload (status or missing
\* Location) is followed by no download, a failed download by no further call,
\* and without an API key no call is issued at all.
C9_TwoStepNoRetry ==
  \A id \in DOMAIN tasks :
    LET t == tasks[id]
    IN  /\ t.uploads <= 1 /\ t.downloads <= 1
        /\ t.downloads = 1 => (t.uploads = 1 /\ t.loc = t.buf /\ t.buf = Encoded(t.src, t.fmt))
        /\ t.body # NoBuf => (t.uploads = 1 /\ t.downloads = 1 /\ t.body = Tiny(t.loc))
        /\ t.pc \in {"write", "ok"} => t.body # NoBuf
        /\ (t.pc = "failed" /\ t.err \in {"shrink", "location"})
             => (t.uploads = 1 /\ t.downloads = 0 /\ t.body = NoBuf)
        /\ (t.pc = "failed" /\ t.err = "download")
             => (t.uploads = 1 /\ t.downloads = 1 /\ t.body = NoBuf)
        /\ (t.pc = "failed" /\ t.err \in {"config", "encode"})
             => (t.uploads = 0 /\ t.downloads = 0)
        /\ t.pc = "upload" => (t.uploads = 1 /\ t.downloads = 0)
        /\ t.pc = "download" => (t.uploads = 1 /\ t.downloads = 1)

\* One call failed at the upload, one at the download and one returned the
\* compressed bytes.
C9_Witness ==
  /\ \E id \in DOMAIN tasks : tasks[id].pc = "failed" /\ tasks[id].err = "shrink"
  /\ \E id \in DOMAIN tasks : tasks[id].pc = "failed" /\ tasks[id].err = "download"
  /\ \E id \in DOMAIN tasks : tasks[id].pc = "ok"

\* C10: of the two derivative tasks of a PNG, a failing one makes the file's
\* outcome the error line carrying a failed task's error (the failing task's
\* when only one failed) and no OK line; the sibling is never cancelled, and
\* once it has written its output the file stays in the output directory.
C10_SiblingIndependent ==
  \A j \in 1..Len(files) :
    Cardinality(TasksOf(j)) = 2 =>
      /\ \A id \in TasksOf(j) :
           /\ tasks[id].pc \in {"encode", "upload", "download", "write", "ok", "failed"}
           /\ tasks[id].pc = "ok" => tasks[id].out \in DOMAIN after
      /\ (j < i /\ FailedTasksOf(j) # {}) =>
           /\ LinesOf("OK", files[j]) = {}
           /\ Cardinality(LinesOf("ERROR", files[j])) = 1
           /\ \A n \in LinesOf("ERROR", files[j]) :
                log[n].err \in {tasks[id].err : id \in FailedTasksOf(j)}
      /\ (j < i /\ FailedTasksOf(j) = {}) =>
           /\ LinesOf("ERROR", files[j]) = {}
           /\ LinesOf("OK", files[j]) # {}

\* A PNG's first derivative failed, its error line was printed, and the
\* sibling wrote its output afterwards; the file is there at the end.
C10_Witness ==
  /\ Quiescent
  /\ \E j \in 1..Len(files) :
       /\ tasks[<<j, 1>>].pc = "failed"
       /\ <<j, 2>> \in DOMAIN tasks
       /\ tasks[<<j, 2>>].pc = "ok"
       /\ tasks[<<j, 2>>].late
       /\ tasks[<<j, 2>>].out \in DOMAIN after
       /\ LinesOf("ERROR", files[j]) # {}

====
